---- MODULE Spec2Model ----
(***************************************************************************)
(* The two Streamlit entry points of ai-outfit-fitcheck (src/app.py and    *)
(* src/app1.py): the loose JSON extractor, the normalizer / sanitizer of   *)
(* the stage-2 object, and the two-call analysis flow around them.         *)
(*                                                                         *)
(* Texts are TLA+ strings, read character by character.  A JSON value is a *)
(* record [t, v]: t = "s" a string (v its text), t = "a" an array (v the   *)
(* sequence of its values), t = "o" an object (v the sequence of its       *)
(* <<key, value>> pairs in insertion order, keys unique, as a Python dict  *)
(* keeps them), t = "none" Python's None.                                  *)
(***************************************************************************)
EXTENDS Integers, Sequences, FiniteSets, TLC

VARIABLES app, pc, vision_raw, vision_json, text_input, final_raw,
          final_json, final_result, calls, ui

vars == <<app, pc, vision_raw, vision_json, text_input, final_raw,
          final_json, final_result, calls, ui>>

---------------------------------------------------------------------------
(* Python str operations used by the source. *)

Char(s, i) == SubSeq(s, i, i)

\* text[start:end] for 0 <= start, 0 <= end (Python slice of a str or list)
Slice(s, start, end) ==
    IF end <= start \/ start >= Len(s) THEN SubSeq(s, 1, 0)
    ELSE SubSeq(s, start + 1, IF end > Len(s) THEN Len(s) ELSE end)

\* text.find(c): 0-based index of the first occurrence of c, -1 when none
Find(s, c) ==
    IF \E i \in 1..Len(s) : Char(s, i) = c
    THEN (CHOOSE i \in 1..Len(s) :
             /\ Char(s, i) = c
             /\ \A j \in 1..(i - 1) : Char(s, j) # c) - 1
    ELSE -1

\* text.rfind(c): 0-based index of the last occurrence of c, -1 when none
RFind(s, c) ==
    IF \E i \in 1..Len(s) : Char(s, i) = c
    THEN (CHOOSE i \in 1..Len(s) :
             /\ Char(s, i) = c
             /\ \A j \in (i + 1)..Len(s) : Char(s, j) # c) - 1
    ELSE -1

\* k in s (substring test); the empty string is in every string
Contains(s, k) ==
    \E i \in 1..(Len(s) - Len(k) + 1) : SubSeq(s, i, i + Len(k) - 1) = k

Upper == "ABCDEFGHIJKLMNOPQRSTUVWXYZ"
LowerLetters == "abcdefghijklmnopqrstuvwxyz"

\* the lower-case form of each upper-case letter
LowerMap ==
    [c \in {Char(Upper, i) : i \in 1..Len(Upper)} |->
        Char(LowerLetters, CHOOSE i \in 1..Len(Upper) : Char(Upper, i) = c)]

LowerChar(c) == IF c \in DOMAIN LowerMap THEN LowerMap[c] ELSE c

\* s.lower()
RECURSIVE Lower(_)
Lower(s) ==
    IF Len(s) = 0 THEN s
    ELSE LowerChar(Char(s, 1)) \o Lower(SubSeq(s, 2, Len(s)))

\* len(s.split()): the number of maximal runs of non-blank characters
SplitCount(s) ==
    Cardinality({i \in 1..Len(s) :
                    /\ Char(s, i) # " "
                    /\ (i = 1 \/ Char(s, i - 1) = " ")})

---------------------------------------------------------------------------
(* JSON values. *)

NoneVal == [t |-> "none", v |-> <<>>]
Str(s) == [t |-> "s", v |-> s]
Arr(xs) == [t |-> "a", v |-> xs]
Obj(ps) == [t |-> "o", v |-> ps]
EmptyObj == Obj(<<>>)

IsNone(x) == x.t = "none"

Has(d, k) == \E i \in 1..Len(d.v) : d.v[i][1] = k
Get(d, k) == d.v[CHOOSE i \in 1..Len(d.v) : d.v[i][1] = k][2]
Keys(d) == {d.v[i][1] : i \in 1..Len(d.v)}

\* d[k] = x on a dict: an existing key keeps its place, a new one goes last
Put(d, k, x) ==
    IF Has(d, k)
    THEN Obj([i \in 1..Len(d.v) |->
                 IF d.v[i][1] = k THEN <<k, x>> ELSE d.v[i]])
    ELSE Obj(Append(d.v, <<k, x>>))

\* Python truthiness of what the extractor returns: None and {} are falsy
Truthy(x) == x.t = "o" /\ Len(x.v) > 0

---------------------------------------------------------------------------
(* json.loads on the subset {objects, arrays, strings without escapes,     *)
(* blanks}: a parse result is [ok, val, pos], pos the next index to read.  *)

ParseFail == [ok |-> FALSE, val |-> NoneVal, pos |-> 0]

RECURSIVE SkipWs(_, _)
SkipWs(s, p) ==
    IF p <= Len(s) /\ Char(s, p) = " " THEN SkipWs(s, p + 1) ELSE p

\* a string literal starting at p: up to the next quote
ParseString(s, p) ==
    IF p > Len(s) \/ Char(s, p) # "\"" THEN ParseFail
    ELSE IF \E q \in (p + 1)..Len(s) : Char(s, q) = "\""
    THEN LET q == CHOOSE q \in (p + 1)..Len(s) :
                     /\ Char(s, q) = "\""
                     /\ \A j \in (p + 1)..(q - 1) : Char(s, j) # "\""
         IN [ok |-> TRUE, val |-> Str(SubSeq(s, p + 1, q - 1)), pos |-> q + 1]
    ELSE ParseFail

RECURSIVE ParseValue(_, _)
RECURSIVE ParseMembers(_, _, _)
RECURSIVE ParseElems(_, _, _)

\* after "{" or ",": a "key": value member, then "," or "}"
ParseMembers(s, p, acc) ==
    LET k == ParseString(s, SkipWs(s, p))
        c == SkipWs(s, k.pos)
        x == ParseValue(s, SkipWs(s, c + 1))
        e == SkipWs(s, x.pos)
    IN  IF ~k.ok THEN ParseFail
        ELSE IF c > Len(s) \/ Char(s, c) # ":" THEN ParseFail
        ELSE IF ~x.ok THEN ParseFail
        ELSE IF e > Len(s) THEN ParseFail
        ELSE IF Char(s, e) = ","
             THEN ParseMembers(s, e + 1, Put(acc, k.val.v, x.val))
        ELSE IF Char(s, e) = "}"
             THEN [ok |-> TRUE, val |-> Put(acc, k.val.v, x.val), pos |-> e + 1]
        ELSE ParseFail

\* after "[" or ",": a value, then "," or "]"
ParseElems(s, p, acc) ==
    LET x == ParseValue(s, SkipWs(s, p))
        e == SkipWs(s, x.pos)
    IN  IF ~x.ok THEN ParseFail
        ELSE IF e > Len(s) THEN ParseFail
        ELSE IF Char(s, e) = ","
             THEN ParseElems(s, e + 1, Append(acc, x.val))
        ELSE IF Char(s, e) = "]"
             THEN [ok |-> TRUE, val |-> Arr(Append(acc, x.val)), pos |-> e + 1]
        ELSE ParseFail

ParseValue(s, p) ==
    IF p > Len(s) THEN ParseFail
    ELSE IF Char(s, p) = "{"
         THEN LET q == SkipWs(s, p + 1)
              IN  IF q <= Len(s) /\ Char(s, q) = "}"
                  THEN [ok |-> TRUE, val |-> EmptyObj, pos |-> q + 1]
                  ELSE ParseMembers(s, q, EmptyObj)
    ELSE IF Char(s, p) = "["
         THEN LET q == SkipWs(s, p + 1)
              IN  IF q <= Len(s) /\ Char(s, q) = "]"
                  THEN [ok |-> TRUE, val |-> Arr(<<>>), pos |-> q + 1]
                  ELSE ParseElems(s, q, <<>>)
    ELSE IF Char(s, p) = "\"" THEN ParseString(s, p)
    ELSE ParseFail

\* json.loads(s): the whole of s is one value between optional blanks;
\* raises (ok = FALSE) otherwise
JsonLoads(s) ==
    LET r == ParseValue(s, SkipWs(s, 1))
    IN  IF r.ok /\ SkipWs(s, r.pos) = Len(s) + 1 THEN r ELSE ParseFail

\* json.dumps(x) with the default separators ", " and ": "
RECURSIVE Dumps(_)
RECURSIVE DumpsSeq(_, _)
DumpsSeq(xs, isObj) ==
    IF Len(xs) = 0 THEN ""
    ELSE LET h == IF isObj
                  THEN "\"" \o xs[1][1] \o "\": " \o Dumps(xs[1][2])
                  ELSE Dumps(xs[1])
         IN  IF Len(xs) = 1 THEN h
             ELSE h \o ", " \o DumpsSeq(Tail(xs), isObj)

Dumps(x) ==
    IF x.t = "s" THEN "\"" \o x.v \o "\""
    ELSE IF x.t = "a" THEN "[" \o DumpsSeq(x.v, FALSE) \o "]"
    ELSE IF x.t = "o" THEN "{" \o DumpsSeq(x.v, TRUE) \o "}"
    ELSE "null"

---------------------------------------------------------------------------
(* The extractors. *)

\* extract_json_loose with the closing brace left out of the span
\* (end = text.rfind("}") instead of text.rfind("}") + 1)
extract_json_loose_ShortSpan(text) ==
    LET start == Find(text, "{")
        end == RFind(text, "}")
    IN  IF start = -1 \/ end = -1 THEN NoneVal
        ELSE LET r == JsonLoads(Slice(text, start, end))
             IN  IF r.ok THEN r.val ELSE NoneVal

\* app.py extract_json_loose
extract_json_loose(text) ==
    LET start == Find(text, "{")
        end == RFind(text, "}") + 1
    IN  IF start = -1 \/ end = 0 THEN NoneVal
        ELSE LET r == JsonLoads(Slice(text, start, end))
             IN  IF r.ok THEN r.val ELSE NoneVal

\* app1.py extract_json
extract_json(text) ==
    LET start == Find(text, "{")
        end == RFind(text, "}") + 1
    IN  IF start = -1 THEN NoneVal
        ELSE LET r == JsonLoads(Slice(text, start, end))
             IN  IF r.ok THEN r.val ELSE NoneVal

---------------------------------------------------------------------------
(* normalize_output (app1.py) and sanitize_final (app.py). *)

WorksTarget == 3
NeedsWorkTarget == 2
SuggestionsTarget == 2

Sections == <<"what_works", "what_needs_work", "suggestions">>
Target(section) ==
    IF section = "what_works" THEN WorksTarget
    ELSE IF section = "what_needs_work" THEN NeedsWorkTarget
    ELSE SuggestionsTarget

NormalizeFiller(section) ==
    IF section = "what_works"
    THEN "The outfit elements appear visually consistent."
    ELSE IF section = "what_needs_work"
    THEN "No clearly visible fit issues are present."
    ELSE "No changes are required based on visible elements."

SanitizeFiller(section) ==
    IF section = "what_works"
    THEN "Visible clothing items form a consistent appearance."
    ELSE IF section = "what_needs_work"
    THEN "No clearly visible fit issues are present."
    ELSE "No changes are required based on visible elements."

Raise(what) == [t |-> "raise", v |-> what]
Raised(x) == x.t = "raise"

\* xs[-n:]: the last n entries instead of the first
TruncateKeepLast(xs, n) ==
    Slice(xs, IF Len(xs) > n THEN Len(xs) - n ELSE 0, Len(xs))

\* xs[1:n]: the slice started one entry late
TruncateSkipFirst(xs, n) == Slice(xs, 1, n)

\* xs[:n] on a list
Truncate(xs, n) == Slice(xs, 0, n)

\* while len(xs) < n: xs.append(filler)
RECURSIVE Pad(_, _, _)
Pad(xs, n, filler) ==
    IF Len(xs) < n THEN Pad(Append(xs, Str(filler)), n, filler) ELSE xs

\* data.get(section, [])
GetOrEmpty(data, section) ==
    IF Has(data, section) THEN Get(data, section) ELSE Arr(<<>>)

\* data[section] = data.get(section, [])[:n], for the three sections in turn
RECURSIVE NormalizeTruncate(_, _)
NormalizeTruncate(data, i) ==
    IF i > Len(Sections) THEN data
    ELSE NormalizeTruncate(
             Put(data, Sections[i],
                 Arr(Truncate(GetOrEmpty(data, Sections[i]).v,
                              Target(Sections[i])))),
             i + 1)

\* the three while loops of normalize_output
RECURSIVE NormalizePad(_, _)
NormalizePad(data, i) ==
    IF i > Len(Sections) THEN data
    ELSE NormalizePad(
             Put(data, Sections[i],
                 Arr(Pad(Get(data, Sections[i]).v, Target(Sections[i]),
                         NormalizeFiller(Sections[i])))),
             i + 1)

normalize_output(data) == NormalizePad(NormalizeTruncate(data, 1), 1)

\* is_sentence
is_sentence(s) == SplitCount(s) >= 4

\* "visible" if flags[k] == "visible" else "not_detected", for every key
CoerceFlags(flags) ==
    Obj([i \in 1..Len(flags.v) |->
            <<flags.v[i][1],
              IF flags.v[i][2].t = "s" /\ flags.v[i][2].v = "visible"
              THEN Str("visible") ELSE Str("not_detected")>>])

NotDetected(flags) ==
    {flags.v[i][1] : i \in {j \in 1..Len(flags.v) :
                               flags.v[j][2] = Str("not_detected")}}

\* [s for s in xs if field not in s.lower()], for every not_detected field
RemoveNotDetected(xs, flags) ==
    LET gone == NotDetected(flags)
        Keep(s) == LET low == Lower(s.v)
                   IN  \A field \in gone : ~Contains(low, field)
    IN  SelectSeq(xs, Keep)

\* [s for s in xs if is_sentence(s)]
RemoveNonSentences(xs) ==
    LET Keep(s) == is_sentence(s.v)
    IN  SelectSeq(xs, Keep)

SanitizeSection(xs, flags, section) ==
    Pad(Truncate(RemoveNonSentences(RemoveNotDetected(xs, flags)),
                 Target(section)),
        Target(section), SanitizeFiller(section))

RECURSIVE SanitizeSections(_, _, _)
SanitizeSections(result, flags, i) ==
    IF i > Len(Sections) THEN result
    ELSE SanitizeSections(
             Put(result, Sections[i],
                 Arr(SanitizeSection(Get(result, Sections[i]).v, flags,
                                     Sections[i]))),
             flags, i + 1)

sanitize_final(result) ==
    IF ~Has(result, "item_flags") THEN Raise("KeyError: item_flags")
    ELSE IF \E i \in 1..Len(Sections) : ~Has(result, Sections[i])
    THEN Raise("KeyError: " \o
               Sections[CHOOSE i \in 1..Len(Sections) :
                           /\ ~Has(result, Sections[i])
                           /\ \A j \in 1..(i - 1) : Has(result, Sections[j])])
    ELSE LET flags == CoerceFlags(Get(result, "item_flags"))
         IN  SanitizeSections(Put(result, "item_flags", flags), flags, 1)

---------------------------------------------------------------------------
(* What the Model Gateway may answer, and what a stage-2 answer may parse  *)
(* to.                                                                     *)

MaxTextLen == 5
MaxExtra == 1

BraceAlphabet == {"{", "}", "x", " "}

\* every text of at most n characters over BraceAlphabet
RECURSIVE TextsUpTo(_)
TextsUpTo(n) ==
    IF n = 0 THEN {""}
    ELSE LET r == TextsUpTo(n - 1)
         IN  r \cup {s \o c : s \in r, c \in BraceAlphabet}

JsonTexts ==
    { "{\"a\": {incomplete",
      "{\"top\": \"visible\"}",
      "{\"top\":\"white shirt\"}",
      "Seen: {\"top\": \"white shirt\", \"shoes\": \"not_detected\"} ok",
      "x { \"a\" : [ \"b\" , \"c\" ] , \"a\" : { } } x",
      "{\"a\": \"b\"} and {\"c\": \"d\"}",
      "} {\"a\": \"b\"",
      "{\"a\": \"b\",}",
      "[\"a\"]",
      "A white top and blue jeans" }

ExtractTexts == TextsUpTo(MaxTextLen) \cup JsonTexts

Stage1Texts ==
    { "", "A white top and blue jeans", "{}", "x{ }",
      "{\"top\": \"visible\"}",
      "Seen: {\"top\": \"white shirt\", \"shoes\": \"not_detected\"} ok",
      "{\"a\": {incomplete" }

FlagKeys == <<"dress", "top", "bottom", "shoes", "bag", "accessories">>

\* an item_flags object giving FlagKeys[i] the value val[i]
Flags(keys, val) == Obj([i \in 1..Len(keys) |-> <<keys[i], Str(val[i])>>])

AllFlags(x) == Flags(FlagKeys, [i \in 1..Len(FlagKeys) |-> x])

FlagSamples ==
    { AllFlags("visible"),
      AllFlags("not_detected"),
      Flags(FlagKeys, <<"visible", "visible", "visible", "not_detected",
                        "visible", "visible">>),
      Flags(FlagKeys, <<"not_detected", "not_detected", "visible", "visible",
                        "not_detected", "visible">>),
      Flags(FlagKeys, <<"maybe", "Visible", "", "visible", "none",
                        "not_detected">>),
      Flags(<<"top">>, <<"visible">>),
      Flags(<<"dress", "top", "bottom", "Shoes", "bag", "accessories">>,
            <<"visible", "visible", "visible", "not_detected", "visible",
              "visible">>),
      EmptyObj }

Vibe == Obj(<< <<"summary", Str("casual")>>, <<"category", Str("streetwear")>> >>)

EntryPool ==
    << "The shoes match well today",
       "Nice Top",
       "The SHOES look very clean",
       "A laptop bag hangs nicely",
       "Colors are balanced and calm",
       "No clearly visible fit issues are present." >>

\* the list of section i with n entries, read off EntryPool from offset off
Entries(i, n, off) ==
    Arr([j \in 1..n |-> Str(EntryPool[((off + i + j) % Len(EntryPool)) + 1])])

\* the members of a parsed object, in schema order, absent ones left out
Members(vibe, lens, off, flags) ==
    (IF vibe THEN << <<"overall_vibe", Vibe>> >> ELSE <<>>)
    \o (IF lens[1] < 0 THEN <<>>
        ELSE << <<"what_works", Entries(1, lens[1], off)>> >>)
    \o (IF lens[2] < 0 THEN <<>>
        ELSE << <<"what_needs_work", Entries(2, lens[2], off)>> >>)
    \o (IF lens[3] < 0 THEN <<>>
        ELSE << <<"suggestions", Entries(3, lens[3], off)>> >>)
    \o (IF flags = NoneVal THEN <<>> ELSE << <<"item_flags", flags>> >>)

\* a length of -1 stands for an absent list
ParsedSamples ==
    { Obj(Members(vibe, <<n1, n2, n3>>, off, flags)) :
        vibe \in BOOLEAN,
        n1 \in -1..(WorksTarget + MaxExtra),
        n2 \in -1..(NeedsWorkTarget + MaxExtra),
        n3 \in -1..(SuggestionsTarget + MaxExtra),
        off \in 0..(Len(EntryPool) - 1),
        flags \in FlagSamples \cup {NoneVal} }

Stage2Texts ==
    { "", "Sorry, I cannot format this.", "{}", "{\"a\": {incomplete",
      "Here is the result: "
          \o Dumps(Obj(Members(TRUE, <<0, 0, 0>>, 0,
                 Flags(FlagKeys, <<"not_detected", "visible", "visible",
                                   "not_detected", "not_detected",
                                   "not_detected">>))))
          \o " -- end",
      Dumps(Obj(Members(TRUE, <<4, 1, 2>>, 0, AllFlags("visible")))),
      Dumps(Obj(Members(TRUE, <<3, 2, 3>>, 2,
                        Flags(FlagKeys, <<"visible", "visible", "visible",
                                          "not_detected", "visible",
                                          "visible">>)))),
      Dumps(Obj(Members(FALSE, <<3, 2, 2>>, 1, AllFlags("visible")))),
      Dumps(Obj(Members(TRUE, <<2, 2, 2>>, 1, NoneVal))),
      Dumps(Obj(Members(TRUE, <<-1, 2, 2>>, 1, AllFlags("visible")))) }

---------------------------------------------------------------------------
(* One analysis request: the body of "if uploaded_file and st.button(..)". *)

Event(kind, text, report) == [kind |-> kind, text |-> text, report |-> report]

extract(a, text) ==
    IF a = "app" THEN extract_json_loose(text) ELSE extract_json(text)

\* st.code(vision_raw if vision_raw else "[EMPTY]"), app.py only
ShowVision(a, text) ==
    IF a = "app"
    THEN << Event("vision_raw", IF text = "" THEN "[EMPTY]" ELSE text, NoneVal) >>
    ELSE <<>>

Init == /\ app \in {"app", "app1"}
        /\ pc = "start"
        /\ vision_raw = ""
        /\ vision_json = NoneVal
        /\ text_input = ""
        /\ final_raw = ""
        /\ final_json = NoneVal
        /\ final_result = NoneVal
        /\ calls = [stage1 |-> 0, stage2 |-> 0]
        /\ ui = <<>>

\* Stage1Fail with the exception swallowed: the flow goes on with an empty
\* description
Stage1FailSwallowed ==
    /\ pc = "start"
    /\ calls' = [calls EXCEPT !.stage1 = @ + 1]
    /\ ui' = Append(ui, [kind |-> "exception", text |-> "stage1",
                         report |-> NoneVal])
    /\ pc' = "stage1_done"
    /\ UNCHANGED <<app, vision_raw, vision_json, text_input, final_raw,
                   final_json, final_result>>

\* the stage-1 create() raises: nothing catches it, the script run ends
Stage1Fail ==
    /\ pc = "start"
    /\ calls' = [calls EXCEPT !.stage1 = @ + 1]
    /\ ui' = Append(ui, Event("exception", "stage1", NoneVal))
    /\ pc' = "crashed"
    /\ UNCHANGED <<app, vision_raw, vision_json, text_input, final_raw,
                   final_json, final_result>>

\* the stage-1 create() returns; content or ""
Stage1Return ==
    /\ pc = "start"
    /\ calls' = [calls EXCEPT !.stage1 = @ + 1]
    /\ \E t \in Stage1Texts :
          /\ vision_raw' = t
          /\ ui' = ui \o ShowVision(app, t)
    /\ pc' = "stage1_done"
    /\ UNCHANGED <<app, vision_json, text_input, final_raw, final_json,
                   final_result>>

\* json.dumps(vision_json) if vision_json else vision_raw
StageTwoInput(parsed, raw) == IF Truthy(parsed) THEN Dumps(parsed) ELSE raw

PrepareStage2 ==
    /\ pc = "stage1_done"
    /\ LET parsed == extract(app, vision_raw)
       IN  /\ vision_json' = parsed
           /\ text_input' = StageTwoInput(parsed, vision_raw)
    /\ pc' = "stage2_ready"
    /\ UNCHANGED <<app, vision_raw, final_raw, final_json, final_result,
                   calls, ui>>

Stage2Fail ==
    /\ pc = "stage2_ready"
    /\ calls' = [calls EXCEPT !.stage2 = @ + 1]
    /\ ui' = Append(ui, Event("exception", "stage2", NoneVal))
    /\ pc' = "crashed"
    /\ UNCHANGED <<app, vision_raw, vision_json, text_input, final_raw,
                   final_json, final_result>>

Stage2Return ==
    /\ pc = "stage2_ready"
    /\ calls' = [calls EXCEPT !.stage2 = @ + 1]
    /\ final_raw' \in Stage2Texts
    /\ pc' = "stage2_done"
    /\ UNCHANGED <<app, vision_raw, vision_json, text_input, final_json,
                   final_result, ui>>

Extract2 ==
    /\ pc = "stage2_done"
    /\ final_json' = extract(app, final_raw)
    /\ pc' = "extracted"
    /\ UNCHANGED <<app, vision_raw, vision_json, text_input, final_raw,
                   final_result, calls, ui>>

\* AbortNoJson without st.stop(): the error and the raw text are shown and
\* the flow falls through to the normalizer
AbortNoJsonNoStop ==
    /\ pc = "extracted"
    /\ ~Truthy(final_json)
    /\ ui' = ui \o << [kind |-> "error", text |-> "", report |-> NoneVal],
                      [kind |-> "code", text |-> final_raw,
                       report |-> NoneVal] >>
    /\ final_result' = [t |-> "raise", v |-> "TypeError"]
    /\ pc' = "crashed"
    /\ UNCHANGED <<app, vision_raw, vision_json, text_input, final_raw,
                   final_json, calls>>

\* if not final_json: st.error(..); st.code(final_raw); st.stop()
AbortNoJson ==
    /\ pc = "extracted"
    /\ ~Truthy(final_json)
    /\ ui' = ui \o << Event("error", "", NoneVal),
                      Event("code", final_raw, NoneVal) >>
    /\ pc' = "stopped"
    /\ UNCHANGED <<app, vision_raw, vision_json, text_input, final_raw,
                   final_json, final_result, calls>>

Finalize(a, parsed) ==
    IF a = "app" THEN sanitize_final(parsed) ELSE normalize_output(parsed)

\* final_result = sanitize_final(final_json) / normalize_output(final_json);
\* final_json keeps the object as it was parsed
Sanitize ==
    /\ pc = "extracted"
    /\ Truthy(final_json)
    /\ LET r == Finalize(app, final_json)
       IN  /\ final_result' = r
           /\ pc' = IF Raised(r) THEN "crashed" ELSE "normalized"
           /\ ui' = IF Raised(r)
                    THEN Append(ui, Event("exception", r.v, NoneVal))
                    ELSE ui
    /\ UNCHANGED <<app, vision_raw, vision_json, text_input, final_raw,
                   final_json, calls>>

\* render_analysis reads data['overall_vibe']['summary'] and ['category']
VibeReadable(report) ==
    /\ Has(report, "overall_vibe")
    /\ Has(Get(report, "overall_vibe"), "summary")
    /\ Has(Get(report, "overall_vibe"), "category")

\* app.py: st.json, st.code; app1.py: render_image_overlay, render_analysis,
\* st.code
Rendered(a, report) ==
    IF a = "app"
    THEN << Event("json", "", report), Event("code", "", report) >>
    ELSE IF VibeReadable(report)
    THEN << Event("overlay", "", report), Event("analysis", "", report),
            Event("code", "", report) >>
    ELSE << Event("overlay", "", report),
            Event("exception", "KeyError: overall_vibe", NoneVal) >>

Render ==
    /\ pc = "normalized"
    /\ ui' = ui \o Rendered(app, final_result)
    /\ pc' = IF app = "app" \/ VibeReadable(final_result)
             THEN "done" ELSE "crashed"
    /\ UNCHANGED <<app, vision_raw, vision_json, text_input, final_raw,
                   final_json, final_result, calls>>

Next ==
    \/ Stage1Fail
    \/ Stage1Return
    \/ PrepareStage2
    \/ Stage2Fail
    \/ Stage2Return
    \/ Extract2
    \/ AbortNoJson
    \/ Sanitize
    \/ Render

Spec == Init /\ [][Next]_vars

\* the extractor and the stage-2 input on every text of ExtractTexts
InitExtract ==
    /\ app \in {"app", "app1"}
    /\ pc = "stage1_done"
    /\ vision_raw \in ExtractTexts
    /\ vision_json = NoneVal
    /\ text_input = ""
    /\ final_raw = ""
    /\ final_json = NoneVal
    /\ final_result = NoneVal
    /\ calls = [stage1 |-> 1, stage2 |-> 0]
    /\ ui = ShowVision(app, vision_raw)

NextExtract == PrepareStage2

SpecExtract == InitExtract /\ [][NextExtract]_vars

\* the normalizer / sanitizer on every object of ParsedSamples that
\* passes "if not final_json"
InitNorm ==
    /\ app \in {"app", "app1"}
    /\ pc = "extracted"
    /\ vision_raw = ""
    /\ vision_json = NoneVal
    /\ text_input = ""
    /\ final_json \in {x \in ParsedSamples : Truthy(x)}
    /\ final_raw = Dumps(final_json)
    /\ final_result = NoneVal
    /\ calls = [stage1 |-> 1, stage2 |-> 1]
    /\ ui = ShowVision(app, "")

NextNorm ==
    \/ Sanitize
    \/ Render

SpecNorm == InitNorm /\ [][NextNorm]_vars
---------------------------------------------------------------------------
(* Properties. *)

\* the list a parsed object or report holds for a section; <<>> when absent
ListOf(d, section) == GetOrEmpty(d, section).v

\* Sanitize has acted: final_result is a report or the exception raised
Finalized == final_result.t # "none"
Returned == final_result.t = "o"

ShowsReport == \E i \in 1..Len(ui) : ui[i].report.t # "none"

\* C1: whenever normalize_output or sanitize_final is handed a parsed object
\* that carries overall_vibe and item_flags, whatever the three lists are
\* (absent, empty, short, exact, long), it returns a report whose lists have
\* exactly 3, 2 and 2 entries.
C1_ExactLengths ==
    (Finalized /\ Has(final_json, "overall_vibe") /\ Has(final_json, "item_flags"))
        => /\ Returned
           /\ \A i \in 1..Len(Sections) :
                 /\ Has(final_result, Sections[i])
                 /\ Len(ListOf(final_result, Sections[i])) = Target(Sections[i])

\* C2: in every returned report item_flags has exactly the six keys, every
\* value is "visible" or "not_detected", and a key that was absent from the
\* input or had any value other than "visible" is "not_detected".
C2_FlagsSchema ==
    Returned =>
        /\ Has(final_result, "item_flags")
        /\ LET out == Get(final_result, "item_flags")
               in == IF Has(final_json, "item_flags")
                     THEN Get(final_json, "item_flags") ELSE EmptyObj
           IN  /\ Keys(out) = {FlagKeys[i] : i \in 1..Len(FlagKeys)}
               /\ \A k \in Keys(out) :
                     Get(out, k) \in {Str("visible"), Str("not_detected")}
               /\ \A k \in Keys(out) :
                     (~Has(in, k) \/ Get(in, k) # Str("visible"))
                         => Get(out, k) = Str("not_detected")

\* C3: in every report sanitize_final returns, no entry of the three lists
\* contains, case-insensitively, a key of item_flags whose coerced value is
\* "not_detected".
C3_NoMentionOfNotDetected ==
    (app = "app" /\ Returned) =>
        \A k \in NotDetected(Get(final_result, "item_flags")) :
            \A i \in 1..Len(Sections) :
                \A j \in 1..Len(ListOf(final_result, Sections[i])) :
                    ~Contains(Lower(ListOf(final_result, Sections[i])[j].v),
                              Lower(k))

\* the characters from the first "{" to the last "}" of a text, both included
FirstOpen(text) ==
    CHOOSE i \in 1..Len(text) :
        Char(text, i) = "{" /\ \A j \in 1..(i - 1) : Char(text, j) # "{"
LastClose(text) ==
    CHOOSE i \in 1..Len(text) :
        Char(text, i) = "}" /\ \A j \in (i + 1)..Len(text) : Char(text, j) # "}"
HasChar(text, c) == \E i \in 1..Len(text) : Char(text, i) = c
Span(text) == SubSeq(text, FirstOpen(text), LastClose(text))

\* C4: the extractor returns None when the text has no "{" or no "}", None
\* when the span from the first "{" through the last "}" is not valid JSON
\* (an empty span when the last "}" precedes the first "{"), and otherwise
\* the object that span parses to.
C4_ExtractContract ==
    pc = "stage2_ready" =>
        IF ~HasChar(vision_raw, "{") \/ ~HasChar(vision_raw, "}")
        THEN IsNone(vision_json)
        ELSE IF LastClose(vision_raw) < FirstOpen(vision_raw)
        THEN IsNone(vision_json)
        ELSE IF ~JsonLoads(Span(vision_raw)).ok
        THEN IsNone(vision_json)
        ELSE vision_json = JsonLoads(Span(vision_raw)).val

\* C4 witness: an object extracted from between surrounding prose
C4_Witness ==
    /\ pc = "stage2_ready"
    /\ Truthy(vision_json)
    /\ FirstOpen(vision_raw) > 1
    /\ LastClose(vision_raw) < Len(vision_raw)

\* C5: an object lacking overall_vibe or item_flags ends the request with an
\* error: no report is returned and none reaches rendering.
C5_MissingRequiredIsFatal ==
    (Finalized /\ (~Has(final_json, "overall_vibe")
                   \/ ~Has(final_json, "item_flags")))
        => (Raised(final_result) /\ ~ShowsReport)

Stage1Failed ==
    \E i \in 1..Len(ui) : ui[i].kind = "exception" /\ ui[i].text = "stage1"
Stage2Failed ==
    \E i \in 1..Len(ui) : ui[i].kind = "exception" /\ ui[i].text = "stage2"

\* C6: once the stage-1 call has failed the request is over: the stage-1 call
\* was issued once and no stage-2 call is issued in any later state.
C6_NoStage2AfterStage1Failure ==
    Stage1Failed =>
        /\ pc = "crashed"
        /\ calls.stage1 = 1
        /\ calls.stage2 = 0
        /\ ~ENABLED Next

\* C6 witness: the stage-1 call has failed
C6_Witness == Stage1Failed /\ pc = "crashed" /\ calls.stage1 = 1

\* the extractor has run on the stage-2 answer and returned None
Stage2ExtractedNone ==
    /\ pc \notin {"start", "stage1_done", "stage2_ready", "stage2_done"}
    /\ ~Stage1Failed
    /\ ~Stage2Failed
    /\ IsNone(final_json)

\* C7: when the extractor returns None on the stage-2 answer the request is
\* aborted: the only step left shows the error and the raw stage-2 text, the
\* normalizer / sanitizer never runs and no report is ever shown.
C7_AbortOnStage2ExtractionFailure ==
    Stage2ExtractedNone =>
        /\ pc \in {"extracted", "stopped"}
        /\ ~Finalized
        /\ ~ShowsReport
        /\ pc = "extracted" => (ENABLED AbortNoJson /\ ~ENABLED Sanitize)
        /\ pc = "stopped" =>
              /\ ~ENABLED Next
              /\ Len(ui) >= 2
              /\ ui[Len(ui) - 1].kind = "error"
              /\ ui[Len(ui)] = Event("code", final_raw, NoneVal)

\* C7 witness: aborted on a stage-2 answer that holds no JSON
C7_Witness ==
    /\ Stage2ExtractedNone
    /\ pc = "stopped"
    /\ final_raw = "Sorry, I cannot format this."

\* C8: normalize_output keeps the first N entries of a list longer than its
\* target N, in order and without filler; a list of at most N entries is kept
\* whole, in order, and followed by filler entries only.
C8_TruncateKeepsPrefix ==
    (app = "app1" /\ Returned) =>
        \A i \in 1..Len(Sections) :
            LET in == ListOf(final_json, Sections[i])
                out == ListOf(final_result, Sections[i])
                n == Target(Sections[i])
            IN  IF Len(in) > n
                THEN out = [j \in 1..n |-> in[j]]
                ELSE /\ Len(out) >= Len(in)
                     /\ \A j \in 1..Len(in) : out[j] = in[j]
                     /\ \A j \in (Len(in) + 1)..Len(out) :
                           out[j] = Str(NormalizeFiller(Sections[i]))

\* C8 witness: one list cut, another padded behind its own entry
C8_Witness ==
    /\ app = "app1"
    /\ Returned
    /\ Len(ListOf(final_json, "what_works")) > WorksTarget
    /\ Len(ListOf(final_json, "suggestions")) = 1
    /\ ListOf(final_result, "suggestions")[1] = ListOf(final_json, "suggestions")[1]

\* C9: normalize_output applied to its own result returns that result, in
\* every field.
C9_NormalizeIdempotent ==
    (app = "app1" /\ Returned) => normalize_output(final_result) = final_result

\* C9 witness: a report that normalize_output had to change
C9_Witness ==
    /\ app = "app1"
    /\ Returned
    /\ final_result # final_json
    /\ Len(ListOf(final_json, "what_works")) > WorksTarget
    /\ ~Has(final_json, "what_needs_work")

\* C10: the stage-2 input is the re-serialized object whenever the extractor
\* returned an object on the stage-1 text (an empty one included), and the
\* raw stage-1 text when it returned None.
C10_StageTwoInput ==
    pc = "stage2_ready" =>
        IF IsNone(vision_json)
        THEN text_input = vision_raw
        ELSE text_input = Dumps(vision_json)
====
